---- MODULE Spec2Model ----
(***************************************************************************)
(* A model of enumerate.hpp: the cursors EnumIter / ReverseEnumIter over   *)
(* an enum E, the range Enumerate<E>, and the two loops of the usage       *)
(* example (range-for forwards, rbegin()/rend() backwards).                *)
(*                                                                         *)
(* The integer type underlying E is modelled as an unsigned type of Width  *)
(* bits: the result of unwrap()+1 / unwrap()-1 is converted back to        *)
(* integral_type when it is passed to wrap(), which is a reduction modulo  *)
(* 2^Width.  Signed underlying types as wide as int, where BEGIN-1 or      *)
(* END+1 may overflow, are outside this model.                             *)
(***************************************************************************)
EXTENDS Integers, Sequences, FiniteSets

\* Number of bits of the integer type underlying the enum.
Width == 3

\* Number of loops that run side by side over the one enum.
NTrav == 2

\* Longest sequence of step operations applied to one free-standing cursor.
MaxOps == 2

VARIABLES
    begin_value,  \* Enumerate<E>::begin_value, the integer value of E::BEGIN
    end_value,    \* Enumerate<E>::end_value, the integer value of E::END
    range,        \* the instantiation of Enumerate<E>: pending, ok, ill_formed
    trav,         \* the loops of the usage example, one record per loop
    returned,     \* per accessor of the range, the cursors its calls returned
    v0,           \* the enum item the free-standing cursors were built from
    cur           \* the free-standing cursors, one of each iterator class

vars == <<begin_value, end_value, range, trav, returned, v0, cur>>

RECURSIVE Pow2(_)
Pow2(n) == IF n = 0 THEN 1 ELSE 2 * Pow2(n - 1)

Modulus == Pow2(Width)

\* The values of integral_type.
IntegralValues == 0 .. (Modulus - 1)

\* Conversion of an int result to integral_type.
integral_type(i) == i % Modulus

----
\* EnumIterBase

\* The constructor: wraps an enum item, no validation.
EnumIterBase(inner) == [m_inner |-> inner]

\* operator *
Deref(it) == it.m_inner

\* operator ==
IterEq(lhs, rhs) == lhs.m_inner = rhs.m_inner

\* operator !=
IterNe(lhs, rhs) == lhs.m_inner # rhs.m_inner

unwrap(it) == it.m_inner

\* wrap with a conversion that saturates at the ends of integral_type.
wrap_saturating(it, i) ==
    [it EXCEPT !.m_inner = IF i < 0 THEN 0 ELSE IF i >= Modulus THEN Modulus - 1 ELSE i]

wrap(it, i) == [it EXCEPT !.m_inner = integral_type(i)]

----
\* The step operators.  Each changes *this and returns a copy of it by value:
\* self is the object stepped, result the object returned.

Returned(it) == [self |-> it, result |-> it]

\* operator ++ stepping over every other item.
EnumIter_inc_by_two(it) == Returned(wrap(it, unwrap(it) + 2))

\* EnumIter::operator ++
EnumIter_inc(it) == Returned(wrap(it, unwrap(it) + 1))

\* EnumIter::operator --
EnumIter_dec(it) == Returned(wrap(it, unwrap(it) - 1))

\* operator ++ of the reverse iterator stepping like the forward one.
ReverseEnumIter_inc_up(it) == Returned(wrap(it, unwrap(it) + 1))

\* ReverseEnumIter::operator ++
ReverseEnumIter_inc(it) == Returned(wrap(it, unwrap(it) - 1))

\* operator -- of the reverse iterator stepping like its operator ++.
ReverseEnumIter_dec_down(it) == Returned(wrap(it, unwrap(it) - 1))

\* ReverseEnumIter::operator --
ReverseEnumIter_dec(it) == Returned(wrap(it, unwrap(it) + 1))

----
\* Enumerate<E>

\* The check with < in place of <=.
static_assert_strict == begin_value < end_value

\* static_assert(begin_value <= end_value)
static_assert == begin_value <= end_value

\* Enumerate::begin
begin == EnumIterBase(begin_value)

\* end() at the last item instead of one past it.
end_inclusive == EnumIterBase(integral_type(end_value - 1))

\* Enumerate::end
end == EnumIterBase(end_value)

\* rbegin() without the ++.
rbegin_unstepped == EnumIterBase(end_value)

\* Enumerate::rbegin: return ++reverse_iterator{end_value}
rbegin == ReverseEnumIter_inc(EnumIterBase(end_value)).result

\* rend() without the ++.
rend_unstepped == EnumIterBase(begin_value)

\* Enumerate::rend: return ++reverse_iterator{begin_value}
rend == ReverseEnumIter_inc(EnumIterBase(begin_value)).result

----
\* The loops of the usage example.

Loops == 1 .. NTrav

Accessors == {"begin", "end", "rbegin", "rend"}

Idle == [pc |-> "idle", kind |-> "none", out |-> <<>>]

NoCalls == [a \in Accessors |-> {}]

Called(ret, a, it) == [ret EXCEPT ![a] = @ \cup {it}]

\* Every loop is capped at more iterations than any range has items, so that
\* a loop that runs past its end is seen and the state space stays finite.
MayIterate(t) == Len(t.out) <= Modulus

Init ==
    /\ begin_value \in IntegralValues
    /\ end_value \in IntegralValues
    /\ range = "pending"
    /\ trav = [i \in Loops |-> Idle]
    /\ returned = NoCalls
    /\ v0 = 0
    /\ cur = <<>>

\* Enumerate<E> is instantiated: the static_assert decides whether it exists.
Instantiate ==
    /\ range = "pending"
    /\ range' = IF static_assert THEN "ok" ELSE "ill_formed"
    /\ UNCHANGED <<begin_value, end_value, trav, returned, v0, cur>>

\* for (const auto fruit : enumerate<Fruit>): __begin = begin(), __end = end().
ForwardStart(i) ==
    /\ range = "ok"
    /\ trav[i].pc = "idle"
    /\ trav' = [trav EXCEPT ![i] =
                  [pc |-> "loop", kind |-> "forward", it |-> begin,
                   last |-> end, out |-> <<>>]]
    /\ returned' = Called(Called(returned, "begin", begin), "end", end)
    /\ UNCHANGED <<begin_value, end_value, range, v0, cur>>

\* One iteration with the cursor shared by all forward loops.
ForwardBody_shared(tr, i) ==
    [j \in Loops |->
        IF j = i
        THEN [tr[j] EXCEPT !.out = Append(@, Deref(tr[i].it)),
                           !.it = EnumIter_inc(@).self]
        ELSE IF tr[j].pc = "loop" /\ tr[j].kind = "forward"
             THEN [tr[j] EXCEPT !.it = EnumIter_inc(@).self]
             ELSE tr[j]]

\* One iteration: fruit = *__begin; the body; ++__begin.
ForwardBody(tr, i) ==
    [tr EXCEPT ![i].out = Append(@, Deref(tr[i].it)),
               ![i].it = EnumIter_inc(@).self]

\* __begin != __end holds: one iteration of the range-for loop.
ForwardStep(i) ==
    /\ trav[i].pc = "loop"
    /\ trav[i].kind = "forward"
    /\ IterNe(trav[i].it, trav[i].last)
    /\ MayIterate(trav[i])
    /\ trav' = ForwardBody(trav, i)
    /\ UNCHANGED <<begin_value, end_value, range, returned, v0, cur>>

\* __begin != __end fails: the range-for loop is left.
ForwardExit(i) ==
    /\ trav[i].pc = "loop"
    /\ trav[i].kind = "forward"
    /\ ~IterNe(trav[i].it, trav[i].last)
    /\ trav' = [trav EXCEPT ![i].pc = "done"]
    /\ UNCHANGED <<begin_value, end_value, range, returned, v0, cur>>

\* for (auto it = enumerate<Fruit>.rbegin(); ...
ReverseStart(i) ==
    /\ range = "ok"
    /\ trav[i].pc = "idle"
    /\ trav' = [trav EXCEPT ![i] =
                  [pc |-> "loop", kind |-> "reverse", it |-> rbegin, out |-> <<>>]]
    /\ returned' = Called(returned, "rbegin", rbegin)
    /\ UNCHANGED <<begin_value, end_value, range, v0, cur>>

\* One iteration: name(*it); ++it.
ReverseBody(tr, i) ==
    [tr EXCEPT ![i].out = Append(@, Deref(tr[i].it)),
               ![i].it = ReverseEnumIter_inc(@).self]

\* it != enumerate<Fruit>.rend() holds: one iteration of the loop.
ReverseStep(i) ==
    /\ trav[i].pc = "loop"
    /\ trav[i].kind = "reverse"
    /\ IterNe(trav[i].it, rend)
    /\ MayIterate(trav[i])
    /\ trav' = ReverseBody(trav, i)
    /\ returned' = Called(returned, "rend", rend)
    /\ UNCHANGED <<begin_value, end_value, range, v0, cur>>

\* it != enumerate<Fruit>.rend() fails: the loop is left.
ReverseExit(i) ==
    /\ trav[i].pc = "loop"
    /\ trav[i].kind = "reverse"
    /\ ~IterNe(trav[i].it, rend)
    /\ trav' = [trav EXCEPT ![i].pc = "done"]
    /\ returned' = Called(returned, "rend", rend)
    /\ UNCHANGED <<begin_value, end_value, range, v0, cur>>

LoopNext(i) ==
    \/ ForwardStart(i)
    \/ ForwardStep(i)
    \/ ForwardExit(i)
    \/ ReverseStart(i)
    \/ ReverseStep(i)
    \/ ReverseExit(i)

Next ==
    \/ Instantiate
    \/ \E i \in Loops : LoopNext(i)

Spec == Init /\ [][Next]_vars

\* Every loop that can take a step eventually takes one.
FairSpec == Spec /\ WF_vars(Instantiate) /\ \A i \in Loops : WF_vars(LoopNext(i))

----
\* Free-standing cursors: one EnumIter and one ReverseEnumIter built from the
\* same enum item, stepped by hand.  c is the named cursor; temps are the
\* objects the step operators returned, the last one being the value of the
\* most recent step expression.

Kinds == {"EnumIter", "ReverseEnumIter"}

StepOps == {"++", "--"}

Apply(kind, op, it) ==
    IF kind = "EnumIter"
    THEN IF op = "++" THEN EnumIter_inc(it) ELSE EnumIter_dec(it)
    ELSE IF op = "++" THEN ReverseEnumIter_inc(it) ELSE ReverseEnumIter_dec(it)

CursorInit ==
    /\ begin_value = 0
    /\ end_value = 0
    /\ range = "pending"
    /\ trav = [i \in Loops |-> Idle]
    /\ returned = NoCalls
    /\ v0 \in IntegralValues
    /\ cur = [k \in Kinds |-> [c |-> EnumIterBase(v0), temps |-> <<>>, ops |-> <<>>]]

\* An expression op c, e.g. ++c.
StepNamed(k, op) ==
    /\ Len(cur[k].ops) < MaxOps
    /\ LET r == Apply(k, op, cur[k].c)
       IN cur' = [cur EXCEPT ![k].c = r.self,
                             ![k].temps = Append(@, r.result),
                             ![k].ops = Append(@, op)]
    /\ UNCHANGED <<begin_value, end_value, range, trav, returned, v0>>

\* An expression op (e), where e is the previous step expression, e.g. the
\* outer ++ of ++(++c): it acts on the object that e returned.
StepResult(k, op) ==
    /\ Len(cur[k].ops) < MaxOps
    /\ cur[k].temps # <<>>
    /\ LET n == Len(cur[k].temps)
           r == Apply(k, op, cur[k].temps[n])
       IN cur' = [cur EXCEPT ![k].temps = Append([@ EXCEPT ![n] = r.self], r.result),
                             ![k].ops = Append(@, "(" \o op \o ")")]
    /\ UNCHANGED <<begin_value, end_value, range, trav, returned, v0>>

CursorNext ==
    \E k \in Kinds, op \in StepOps :
        \/ StepNamed(k, op)
        \/ StepResult(k, op)

CursorSpec == CursorInit /\ [][CursorNext]_vars

----
\* Properties.

\* Number of items of the range.
N == end_value - begin_value

Forward(i) == trav[i].kind = "forward"

Reverse(i) == trav[i].kind = "reverse"

Done(i) == trav[i].pc = "done"

Running(i) == trav[i].pc = "loop"

Mirror(s) == [k \in 1 .. Len(s) |-> s[Len(s) + 1 - k]]

\* C1: the forward loop visits begin_value, begin_value + 1, ... in this
\* order, never more than the N items of the range, and when it is left it
\* has visited all N of them: every v with BEGIN <= v < END exactly once,
\* ascending, and nothing else.
ForwardVisitsAllAscending ==
    \A i \in Loops : Forward(i) =>
        /\ Len(trav[i].out) <= N
        /\ \A k \in 1 .. Len(trav[i].out) : trav[i].out[k] = begin_value + k - 1
        /\ Done(i) => Len(trav[i].out) = N

ForwardWitness ==
    \E i \in Loops :
        /\ Forward(i) /\ Done(i)
        /\ begin_value = 0 /\ end_value = 3
        /\ trav[i].out = <<0, 1, 2>>

\* C2: the reverse loop visits end_value - 1, end_value - 2, ... in this
\* order, never more than N items, and when it is left it has visited N
\* items, the first being END - 1 and the last BEGIN; its sequence is the
\* forward loop's sequence reversed.
ReverseMirrorsForward ==
    \A i \in Loops : Reverse(i) =>
        /\ Len(trav[i].out) <= N
        /\ \A k \in 1 .. Len(trav[i].out) : trav[i].out[k] = end_value - k
        /\ Done(i) =>
            /\ Len(trav[i].out) = N
            /\ N > 0 => /\ trav[i].out[1] = end_value - 1
                        /\ trav[i].out[N] = begin_value
            /\ \A j \in Loops : Forward(j) /\ Done(j) =>
                 trav[i].out = Mirror(trav[j].out)

ReverseWitness ==
    \E i, j \in Loops :
        /\ Reverse(i) /\ Done(i)
        /\ Forward(j) /\ Done(j)
        /\ N >= 3
        /\ begin_value > 0

\* C3: after k applications of operator++ from begin() (one per item
\* visited) the forward cursor equals end() exactly when k = N; a loop that
\* is not yet at end() can take its next iteration, and the loop is left
\* after exactly N iterations.
ForwardReachesEndAfterN ==
    \A i \in Loops : Forward(i) =>
        /\ IterEq(trav[i].it, end) <=> Len(trav[i].out) = N
        /\ Len(trav[i].out) <= N
        /\ Running(i) /\ Len(trav[i].out) < N => ENABLED ForwardStep(i)
        /\ Running(i) /\ Len(trav[i].out) = N => ENABLED ForwardExit(i)
        /\ Done(i) => Len(trav[i].out) = N

ForwardEndWitness ==
    \E i \in Loops :
        /\ Forward(i) /\ Running(i)
        /\ N >= 3
        /\ Len(trav[i].out) = N
        /\ IterEq(trav[i].it, end)

\* C4: every call of begin() returned a cursor wrapping BEGIN, every call
\* of end() one wrapping END, every call of rbegin() one wrapping END - 1
\* and every call of rend() one wrapping BEGIN - 1 (in integral_type); the
\* cursors that the calls of one accessor returned compare equal.
AccessorsAtFixedPositions ==
    /\ \A it \in returned["begin"] : Deref(it) = begin_value
    /\ \A it \in returned["end"] : Deref(it) = end_value
    /\ \A it \in returned["rbegin"] : Deref(it) = integral_type(end_value - 1)
    /\ \A it \in returned["rend"] : Deref(it) = integral_type(begin_value - 1)
    /\ \A a \in Accessors : \A x, y \in returned[a] : IterEq(x, y)

AccessorsWitness ==
    /\ \A a \in Accessors : returned[a] # {}
    /\ \E i, j \in Loops :
        /\ Forward(i)
        /\ Reverse(j)
        /\ Len(trav[j].out) >= 2

EmptyRangeVisitsNothing ==
    begin_value = end_value /\ range = "ok" =>
        /\ IterEq(begin, end)
        /\ IterEq(rbegin, rend)
        /\ \A i \in Loops :
            /\ trav[i].out = <<>>
            /\ Running(i) /\ Forward(i) =>
                 ENABLED ForwardExit(i) /\ ~ENABLED ForwardStep(i)
            /\ Running(i) /\ Reverse(i) =>
                 ENABLED ReverseExit(i) /\ ~ENABLED ReverseStep(i)

EmptyWitness ==
    /\ begin_value = end_value
    /\ \E i, j \in Loops :
        /\ Forward(i) /\ Done(i)
        /\ Reverse(j) /\ Done(j)

\* C9: loops interleaved in any order do not disturb each other: a step
\* changes at most one loop and never the range; every loop that is left has
\* visited its complete sequence; and every loop that has started is
\* eventually left: a running loop stays running or is left, a loop that is
\* left stays left, and no loop keeps running for ever.
StepTouchesOneLoop ==
    /\ begin_value' = begin_value
    /\ end_value' = end_value
    /\ range # "pending" => range' = range
    /\ \A i, j \in Loops : i # j /\ trav[i]' # trav[i] => trav[j]' = trav[j]
    /\ \A i \in Loops :
        /\ Running(i) => trav[i]'.pc \in {"loop", "done"}
        /\ Done(i) => trav[i]' = trav[i]

CompleteWhenLeft ==
    \A i \in Loops : Done(i) =>
        /\ Forward(i) => trav[i].out = [k \in 1 .. N |-> begin_value + k - 1]
        /\ Reverse(i) => trav[i].out = [k \in 1 .. N |-> end_value - k]

InterleavedLoopsIndependent ==
    /\ [][StepTouchesOneLoop]_vars
    /\ []CompleteWhenLeft
    /\ \A i \in Loops : []<>(~Running(i))

InterleavedWitness ==
    \E i, j \in Loops :
        /\ Forward(i) /\ Running(i)
        /\ Reverse(j) /\ Running(j)
        /\ N >= 3
        /\ Len(trav[i].out) = 1
        /\ Len(trav[j].out) = 2

\* C10: for BEGIN = 0, the smallest value of integral_type, rend() holds the
\* largest value of integral_type; the reverse loop still visits END - 1
\* down to 0, does not meet rend() before it has visited all N = END items,
\* meets it then, and is left with exactly END - 1, ..., 0 visited.
ReverseFromSmallestBegin ==
    begin_value = 0 /\ range = "ok" =>
        /\ Deref(rend) = Modulus - 1
        /\ \A it \in returned["rend"] : Deref(it) = Modulus - 1
        /\ \A i \in Loops : Reverse(i) =>
            /\ Len(trav[i].out) <= end_value
            /\ \A k \in 1 .. Len(trav[i].out) : trav[i].out[k] = end_value - k
            /\ Len(trav[i].out) < end_value => IterNe(trav[i].it, rend)
            /\ Len(trav[i].out) = end_value => IterEq(trav[i].it, rend)
            /\ Done(i) => trav[i].out = [k \in 1 .. end_value |-> end_value - k]

SmallestBeginWitness ==
    \E i \in Loops :
        /\ begin_value = 0
        /\ end_value = Modulus - 1
        /\ Reverse(i) /\ Done(i)
        /\ Len(trav[i].out) = Modulus - 1
        /\ Modulus - 1 \in { Deref(it) : it \in returned["rend"] }

----
\* Properties of the free-standing cursors.

Named(k) == cur[k].c

Ops(k) == cur[k].ops

\* The step of operator++ of each class, as a difference.
Dir(k) == IF k = "EnumIter" THEN 1 ELSE -1

\* C7: ++ on a forward cursor adds 1 and -- subtracts 1; ++ on a reverse
\* cursor subtracts 1 and -- adds 1; a forward cursor after ++ holds what a
\* reverse cursor built from the same item holds after --; and ++ then --,
\* or -- then ++, restores the item.
StepsAreMirrored ==
    /\ \A k \in Kinds :
        /\ Ops(k) = <<"++">> => unwrap(Named(k)) = integral_type(v0 + Dir(k))
        /\ Ops(k) = <<"--">> => unwrap(Named(k)) = integral_type(v0 - Dir(k))
        /\ Ops(k) \in {<<"++", "--">>, <<"--", "++">>} => unwrap(Named(k)) = v0
    /\ Ops("EnumIter") = <<"++">> /\ Ops("ReverseEnumIter") = <<"--">> =>
         IterEq(Named("EnumIter"), Named("ReverseEnumIter"))
    /\ Ops("EnumIter") = <<"--">> /\ Ops("ReverseEnumIter") = <<"++">> =>
         IterEq(Named("EnumIter"), Named("ReverseEnumIter"))

StepsWitness ==
    /\ v0 = 2
    /\ Ops("EnumIter") = <<"++">>
    /\ Ops("ReverseEnumIter") = <<"--">>
    /\ unwrap(Named("EnumIter")) = 3

\* C8: a step returns the cursor itself: after ++(++c) or --(--c), the
\* named cursor c has moved by two positions.
ChainedStepMovesCursorTwice ==
    \A k \in Kinds :
        /\ Ops(k) = <<"++", "(++)">> => unwrap(Named(k)) = integral_type(v0 + 2 * Dir(k))
        /\ Ops(k) = <<"--", "(--)">> => unwrap(Named(k)) = integral_type(v0 - 2 * Dir(k))

====
